---- MODULE Spec2Model ----
(***************************************************************************)
(* DualStoreMemoryManager (src/dual_store_memory_example.py): a facade     *)
(* over two injected stores, a key-value "regular" store and an optional   *)
(* "semantic" store.  Callers run facade coroutines concurrently; a        *)
(* coroutine is interleaved with the others at its awaited store calls,    *)
(* and each store call (put / get / search) is atomic and may raise.       *)
(***************************************************************************)
EXTENDS Integers, Sequences, FiniteSets, TLC

VARIABLES
    regular_store,   \* self.regular_store: the store object held
    semantic_store,  \* self.semantic_store: the store object held, or None
    contents,        \* contents[s]: the records of store object s, keyed by <<namespace, key>>
    pc,              \* pc[c]: where caller c's coroutine stands
    frame,           \* frame[c]: the facade method c runs (or ran last) and its arguments
    preferences,     \* preferences[c]: the local of get_context_for_response
    calls,           \* calls[c]: the store calls issued by c's current (or last) operation
    outcome,         \* outcome[c]: how c's current (or last) operation ended
    history,         \* history[e]: the preferences mappings written for e, in completion order
    nops             \* the number of facade operations started

vars == <<regular_store, semantic_store, contents, pc, frame, preferences,
          calls, outcome, history, nops>>

----------------------------------------------------------------------------
(* Bounds of the model *)

MaxOps == 2
MaxLimit == 3

(* Program constants *)

DefaultLimit == 3
ContextLimitOmitted == DefaultLimit

ContextLimit == 2

----------------------------------------------------------------------------
(* Input domains *)

Callers == {"c1", "c2"}
Entities == {"e1", "e2"}
Queries == {"q1"}
Limits == (0..MaxLimit) \cup {DefaultLimit}
Errors == {"StoreUnavailable", "Timeout"}

None == "None"
RegularStoreObject == "kv"
SemanticStoreObject == "vec"
StoreObjects == {RegularStoreObject, SemanticStoreObject}

EmptyDict == << >>

PreferenceInputs ==
    { EmptyDict,
      [theme |-> "dark"],
      [theme |-> "light", lang |-> "en"] }

ConversationInputs ==
    { [id |-> "a", text |-> "hello", topics |-> <<"casual">>,
       timestamp |-> "t1", sentiment |-> "friendly", channel |-> "web"],
      [id |-> "unknown", text |-> "who", timestamp |-> "t3"],
      EmptyDict }

----------------------------------------------------------------------------
(* dict.get(key, default) *)

DictGet(d, k, default) == IF k \in DOMAIN d THEN d[k] ELSE default

(* Namespaces and keys the facade addresses *)

UserNamespaceLiteral(assistant_id) == <<"user_data", "assistant_id">>

UserNamespace(assistant_id) == <<"user_data", assistant_id>>

PreferencesKey == "preferences"

ConversationNamespace(assistant_id) == <<"conversations", assistant_id>>

ConversationKey(conversation) == "conv_" \o DictGet(conversation, "id", "unknown")

SemanticDataWhole(conversation) == conversation

SemanticData(conversation) ==
    [text      |-> DictGet(conversation, "text", ""),
     topics    |-> DictGet(conversation, "topics", << >>),
     timestamp |-> DictGet(conversation, "timestamp", None),
     sentiment |-> DictGet(conversation, "sentiment", "neutral")]

----------------------------------------------------------------------------
(* The store collaborators: put replaces or creates the record at          *)
(* <<namespace, key>>; get hands back the item there or None; search ranks *)
(* the items of the namespace in an order of the store's own and hands     *)
(* back the best of them, at most `limit`, fewer when it finds fewer       *)
(* similar enough.                                                         *)

StorePut(m, namespace, key, value) ==
    [k \in DOMAIN m \cup {<<namespace, key>>} |->
        IF k = <<namespace, key>> THEN value ELSE m[k]]

StoreGet(m, namespace, key) ==
    IF <<namespace, key>> \in DOMAIN m
    THEN [found |-> TRUE, value |-> m[<<namespace, key>>]]
    ELSE [found |-> FALSE, value |-> EmptyDict]

NamespaceKeys(m, namespace) == {k \in DOMAIN m : k[1] = namespace}

Ranking(keys) ==
    CHOOSE s \in [1..Cardinality(keys) -> keys] :
        \A i, j \in DOMAIN s : s[i] = s[j] => i = j

Min(a, b) == IF a < b THEN a ELSE b

StoreSearch(m, namespace, limit) ==
    LET ranked == Ranking(NamespaceKeys(m, namespace)) IN
    { [i \in 1..len |-> [value |-> m[ranked[i]]]] :
        len \in 0..Min(limit, Len(ranked)) }

----------------------------------------------------------------------------
(* Values a facade coroutine hands back, and the ways it ends *)

NoneValue ==
    [kind |-> "None", user_preferences |-> EmptyDict,
     relevant_conversations |-> << >>, query |-> ""]

DictValue(d) ==
    [kind |-> "dict", user_preferences |-> d,
     relevant_conversations |-> << >>, query |-> ""]

ListValue(l) ==
    [kind |-> "list", user_preferences |-> EmptyDict,
     relevant_conversations |-> l, query |-> ""]

Returned(v) == [status |-> "returned", error |-> None, value |-> v]

Raised(err) == [status |-> "raised", error |-> err, value |-> NoneValue]

Pending == [status |-> "pending", error |-> None, value |-> NoneValue]

NoOutcome == [status |-> "none", error |-> None, value |-> NoneValue]

NoFrame ==
    [op |-> "none", assistant_id |-> "", preferences |-> EmptyDict,
     conversation |-> EmptyDict, query |-> "", limit |-> 0]

----------------------------------------------------------------------------
(* An awaited call on a held store reference.  A call on a store object    *)
(* either succeeds (None) or raises one of the store's errors; a method    *)
(* call on a reference that holds None raises AttributeError and reaches   *)
(* no store.                                                               *)

AttributeError == "AttributeError"

CallOutcomes(call) ==
    IF call.store = None THEN {AttributeError} ELSE {None} \cup Errors

Issued(call, err) == [call |-> call, error |-> err]

Logged(call, err) == IF call.store = None THEN << >> ELSE <<Issued(call, err)>>

PutEffect(call, err) ==
    IF err = None
    THEN [contents EXCEPT ![call.store] =
              StorePut(@, call.namespace, call.key, call.value)]
    ELSE contents

GetResult(call, err) ==
    IF err = None
    THEN StoreGet(contents[call.store], call.namespace, call.key)
    ELSE [found |-> FALSE, value |-> EmptyDict]

SearchResults(call, err) ==
    IF err = None
    THEN StoreSearch(contents[call.store], call.namespace, call.limit)
    ELSE {<< >>}

----------------------------------------------------------------------------
(* The store calls the facade issues *)

PutPreferencesCall(assistant_id, prefs) ==
    [store |-> regular_store, method |-> "put",
     namespace |-> UserNamespace(assistant_id), key |-> PreferencesKey,
     value |-> prefs]

GetPreferencesCallWrongKey(assistant_id) ==
    [store |-> regular_store, method |-> "get",
     namespace |-> UserNamespace(assistant_id), key |-> "preference"]

GetPreferencesCall(assistant_id) ==
    [store |-> regular_store, method |-> "get",
     namespace |-> UserNamespace(assistant_id), key |-> PreferencesKey]

PutConversationCallSharedNamespace(assistant_id, conversation) ==
    [store |-> semantic_store, method |-> "put",
     namespace |-> <<"conversations">>,
     key |-> ConversationKey(conversation),
     value |-> SemanticData(conversation)]

PutConversationCall(assistant_id, conversation) ==
    [store |-> semantic_store, method |-> "put",
     namespace |-> ConversationNamespace(assistant_id),
     key |-> ConversationKey(conversation),
     value |-> SemanticData(conversation)]

SearchCallDefaultLimit(assistant_id, query, limit) ==
    [store |-> semantic_store, method |-> "search",
     namespace |-> ConversationNamespace(assistant_id),
     query |-> query, limit |-> DefaultLimit]

SearchCall(assistant_id, query, limit) ==
    [store |-> semantic_store, method |-> "search",
     namespace |-> ConversationNamespace(assistant_id),
     query |-> query, limit |-> limit]

(* `if not self.semantic_store` / `if self.semantic_store` *)

SemanticStoreAssumed == TRUE

SemanticStoreConfigured == semantic_store # None

(* What the facade makes of what a store call hands back *)

PreferencesOf(item) == IF item.found THEN item.value ELSE EmptyDict

ProjectValues(results) == [i \in DOMAIN results |-> results[i].value]

PutOutcome(err) == IF err # None THEN Raised(err) ELSE Returned(NoneValue)

GetPreferencesOutcomeUnchecked(err, item) ==
    IF err # None THEN Raised(err)
    ELSE IF item.found THEN Returned(DictValue(item.value))
    ELSE Raised(AttributeError)

GetPreferencesOutcome(err, item) ==
    IF err # None THEN Raised(err) ELSE Returned(DictValue(PreferencesOf(item)))

SearchOutcome(err, results) ==
    IF err # None THEN Raised(err) ELSE Returned(ListValue(ProjectValues(results)))

ContextBundle(prefs, similar_conversations, user_query) ==
    [kind |-> "bundle", user_preferences |-> prefs,
     relevant_conversations |-> similar_conversations, query |-> user_query]

ContextOutcomeWithFallback(prefs, searched, user_query) ==
    IF searched.status = "raised"
    THEN Returned(ContextBundle(prefs, << >>, user_query))
    ELSE Returned(ContextBundle(prefs, searched.value.relevant_conversations,
                                user_query))

ContextOutcome(prefs, searched, user_query) ==
    IF searched.status = "raised"
    THEN searched
    ELSE Returned(ContextBundle(prefs, searched.value.relevant_conversations,
                                user_query))

----------------------------------------------------------------------------
(* The stores are handed in by whoever builds the facade: they start empty, *)
(* or the semantic store already holds the conversations an earlier facade  *)
(* over the same store wrote for one entity.                                *)

RECURSIVE PutAll(_, _, _)
PutAll(m, assistant_id, conversations) ==
    IF conversations = << >>
    THEN m
    ELSE PutAll(StorePut(m, ConversationNamespace(assistant_id),
                         ConversationKey(Head(conversations)),
                         SemanticData(Head(conversations))),
                assistant_id, Tail(conversations))

EarlierConversations ==
    <<[id |-> "x", text |-> "good morning", topics |-> <<"casual">>,
       timestamp |-> "t7", sentiment |-> "friendly"],
      [id |-> "y", text |-> "refund status", timestamp |-> "t8"],
      [id |-> "z", text |-> "thanks", topics |-> <<"casual", "closing">>,
       timestamp |-> "t9"]>>

InitialContents ==
    { [s \in StoreObjects |-> << >>],
      [s \in StoreObjects |->
          IF s = SemanticStoreObject
          THEN PutAll(<< >>, "e1", EarlierConversations)
          ELSE << >>] }

Init ==
    /\ regular_store = RegularStoreObject
    /\ semantic_store \in {None, SemanticStoreObject}
    /\ contents \in InitialContents
    /\ semantic_store = None => contents[SemanticStoreObject] = << >>
    /\ pc = [c \in Callers |-> "idle"]
    /\ frame = [c \in Callers |-> NoFrame]
    /\ preferences = [c \in Callers |-> EmptyDict]
    /\ calls = [c \in Callers |-> << >>]
    /\ outcome = [c \in Callers |-> NoOutcome]
    /\ history = [e \in Entities |-> << >>]
    /\ nops = 0

(* A caller starts a facade coroutine *)
Start(c, f) ==
    /\ pc[c] = "idle"
    /\ nops < MaxOps
    /\ nops' = nops + 1
    /\ frame' = [frame EXCEPT ![c] = f]

(* store_user_preferences: one put on the regular store *)
store_user_preferences(c, assistant_id, prefs) ==
    /\ Start(c, [NoFrame EXCEPT !.op = "store_user_preferences",
                                !.assistant_id = assistant_id,
                                !.preferences = prefs])
    /\ LET call == PutPreferencesCall(assistant_id, prefs) IN
       \E err \in CallOutcomes(call) :
        /\ calls' = [calls EXCEPT ![c] = Logged(call, err)]
        /\ contents' = PutEffect(call, err)
        /\ history' =
              IF err = None
              THEN [history EXCEPT ![assistant_id] = Append(@, prefs)]
              ELSE history
        /\ outcome' = [outcome EXCEPT ![c] = PutOutcome(err)]
    /\ UNCHANGED <<regular_store, semantic_store, pc, preferences>>

(* get_user_preferences: one get on the regular store *)
get_user_preferences(c, assistant_id) ==
    /\ Start(c, [NoFrame EXCEPT !.op = "get_user_preferences",
                                !.assistant_id = assistant_id])
    /\ LET call == GetPreferencesCall(assistant_id) IN
       \E err \in CallOutcomes(call) :
        /\ calls' = [calls EXCEPT ![c] = Logged(call, err)]
        /\ outcome' = [outcome EXCEPT ![c] =
                          GetPreferencesOutcome(err, GetResult(call, err))]
    /\ UNCHANGED <<regular_store, semantic_store, contents, pc, preferences, history>>

(* store_conversation_for_search: nothing without a semantic store, else one put on it *)
store_conversation_for_search(c, assistant_id, conversation) ==
    /\ Start(c, [NoFrame EXCEPT !.op = "store_conversation_for_search",
                                !.assistant_id = assistant_id,
                                !.conversation = conversation])
    /\ IF ~SemanticStoreConfigured
       THEN /\ calls' = [calls EXCEPT ![c] = << >>]
            /\ outcome' = [outcome EXCEPT ![c] = Returned(NoneValue)]
            /\ UNCHANGED contents
       ELSE LET call == PutConversationCall(assistant_id, conversation) IN
            \E err \in CallOutcomes(call) :
                /\ calls' = [calls EXCEPT ![c] = Logged(call, err)]
                /\ contents' = PutEffect(call, err)
                /\ outcome' = [outcome EXCEPT ![c] = PutOutcome(err)]
    /\ UNCHANGED <<regular_store, semantic_store, pc, preferences, history>>

(* search_similar_conversations: [] without a semantic store, else one search on it *)
search_similar_conversations(c, assistant_id, query, limit) ==
    /\ Start(c, [NoFrame EXCEPT !.op = "search_similar_conversations",
                                !.assistant_id = assistant_id,
                                !.query = query, !.limit = limit])
    /\ IF ~SemanticStoreConfigured
       THEN /\ calls' = [calls EXCEPT ![c] = << >>]
            /\ outcome' = [outcome EXCEPT ![c] = Returned(ListValue(<< >>))]
       ELSE LET call == SearchCall(assistant_id, query, limit) IN
            \E err \in CallOutcomes(call) :
            \E results \in SearchResults(call, err) :
                /\ calls' = [calls EXCEPT ![c] = Logged(call, err)]
                /\ outcome' = [outcome EXCEPT ![c] = SearchOutcome(err, results)]
    /\ UNCHANGED <<regular_store, semantic_store, contents, pc, preferences, history>>

(* get_context_for_response, up to its second await: the preference lookup *)
get_context_for_response(c, assistant_id, user_query) ==
    /\ Start(c, [NoFrame EXCEPT !.op = "get_context_for_response",
                                !.assistant_id = assistant_id,
                                !.query = user_query])
    /\ LET call == GetPreferencesCall(assistant_id) IN
       \E err \in CallOutcomes(call) :
        LET got == GetPreferencesOutcome(err, GetResult(call, err)) IN
        /\ calls' = [calls EXCEPT ![c] = Logged(call, err)]
        /\ IF got.status = "raised"
           THEN /\ outcome' = [outcome EXCEPT ![c] = got]
                /\ UNCHANGED <<pc, preferences>>
           ELSE /\ preferences' = [preferences EXCEPT ![c] = got.value.user_preferences]
                /\ IF ~SemanticStoreConfigured
                   THEN /\ outcome' = [outcome EXCEPT ![c] =
                               Returned(ContextBundle(got.value.user_preferences,
                                                      << >>, user_query))]
                        /\ UNCHANGED pc
                   ELSE /\ outcome' = [outcome EXCEPT ![c] = Pending]
                        /\ pc' = [pc EXCEPT ![c] = "await_search"]
    /\ UNCHANGED <<regular_store, semantic_store, contents, history>>

(* get_context_for_response, from its second await: the similarity search *)
context_search(c) ==
    /\ pc[c] = "await_search"
    /\ LET call == SearchCall(frame[c].assistant_id, frame[c].query, ContextLimit) IN
       \E err \in CallOutcomes(call) :
       \E results \in SearchResults(call, err) :
           /\ calls' = [calls EXCEPT ![c] = calls[c] \o Logged(call, err)]
           /\ outcome' = [outcome EXCEPT ![c] =
                  ContextOutcome(preferences[c], SearchOutcome(err, results),
                                 frame[c].query)]
    /\ pc' = [pc EXCEPT ![c] = "idle"]
    /\ UNCHANGED <<regular_store, semantic_store, contents, frame, preferences,
                   history, nops>>

Next ==
    \E c \in Callers :
        \/ \E e \in Entities, p \in PreferenceInputs : store_user_preferences(c, e, p)
        \/ \E e \in Entities : get_user_preferences(c, e)
        \/ \E e \in Entities, conv \in ConversationInputs :
               store_conversation_for_search(c, e, conv)
        \/ \E e \in Entities, q \in Queries, l \in Limits :
               search_similar_conversations(c, e, q, l)
        \/ \E e \in Entities, q \in Queries : get_context_for_response(c, e, q)
        \/ context_search(c)

Spec == Init /\ [][Next]_vars

----------------------------------------------------------------------------
(* Properties *)

Completed(c) == outcome[c].status \in {"returned", "raised"}

Ran(c, op) == frame[c].op = op /\ Completed(c)

Last(s) == s[Len(s)]

ConversationCount(assistant_id) ==
    Cardinality(NamespaceKeys(contents[SemanticStoreObject],
                              <<"conversations", assistant_id>>))

(* C1: a get_user_preferences(e) that returns after a store_user_preferences(e, p)
   completed, with no later completed preferences write for e, returns exactly p
   (the empty mapping included), whatever else ran before or in between. *)
C1_GetAfterStoreReturnsStored ==
    [][\A c \in Callers, e \in Entities :
          (/\ get_user_preferences(c, e)
           /\ outcome'[c].status = "returned"
           /\ history[e] # << >>)
          => /\ outcome'[c].value.kind = "dict"
             /\ outcome'[c].value.user_preferences = Last(history[e])]_vars

C1_Witness ==
    \E c \in Callers :
        /\ Ran(c, "get_user_preferences")
        /\ outcome[c].status = "returned"
        /\ history[frame[c].assistant_id] = <<[theme |-> "light", lang |-> "en"]>>
        /\ outcome[c].value.user_preferences = [theme |-> "light", lang |-> "en"]

(* C2, as claimed: no record of either store is ever changed once it exists
   (every write creates a new record). *)
C2_NoRecordEverReplaced ==
    [][\A s \in StoreObjects : \A k \in DOMAIN contents[s] :
          k \in DOMAIN contents'[s] /\ contents'[s][k] = contents[s][k]]_vars

(* C2, amended: a step changes at most the one record a facade write targets:
   store_user_preferences(e, p) sets the record at [user_data, e] / "preferences"
   of the regular store to p, store_conversation_for_search(e, conv) sets the
   record at [conversations, e] / "conv_" + id of the semantic store, creating
   the record or replacing its value; every other record keeps its value and
   no record is removed. *)
C2_WritesTouchOnlyTheirKey ==
    [][\A s \in StoreObjects :
          /\ DOMAIN contents[s] \subseteq DOMAIN contents'[s]
          /\ \A k \in DOMAIN contents'[s] :
                (k \in DOMAIN contents[s] => contents'[s][k] # contents[s][k])
                => \E c \in Callers, e \in Entities :
                      \/ \E p \in PreferenceInputs :
                            /\ store_user_preferences(c, e, p)
                            /\ s = regular_store
                            /\ k = << <<"user_data", e>>, "preferences" >>
                            /\ contents'[s][k] = p
                      \/ \E conv \in ConversationInputs :
                            /\ store_conversation_for_search(c, e, conv)
                            /\ s = semantic_store
                            /\ k = << <<"conversations", e>>,
                                      "conv_" \o (IF "id" \in DOMAIN conv
                                                  THEN conv.id ELSE "unknown") >>]_vars

C2_Witness ==
    \E e \in Entities :
        /\ Len(history[e]) = 2
        /\ history[e][1] # history[e][2]
        /\ contents[regular_store][<< <<"user_data", e>>, "preferences" >>] = history[e][2]

(* C3: search_similar_conversations(e, q, limit) never returns more than limit
   results. *)
C3_SearchAtMostLimit ==
    \A c \in Callers :
        (Ran(c, "search_similar_conversations") /\ outcome[c].status = "returned")
        => /\ outcome[c].value.kind = "list"
           /\ Len(outcome[c].value.relevant_conversations) <= frame[c].limit

C3_Witness ==
    \E c \in Callers :
        /\ Ran(c, "search_similar_conversations")
        /\ outcome[c].status = "returned"
        /\ frame[c].limit = 2
        /\ ConversationCount(frame[c].assistant_id) = 3
        /\ Len(outcome[c].value.relevant_conversations) = 2

(* C4: with no semantic store, store_conversation_for_search returns without
   issuing a store call and leaves both stores' contents unchanged, and
   search_similar_conversations returns the empty sequence without issuing a
   store call. *)
C4_NoSemanticStoreNoOp ==
    [][semantic_store = None =>
        \A c \in Callers, e \in Entities :
          /\ \A conv \in ConversationInputs :
                store_conversation_for_search(c, e, conv)
                => /\ calls'[c] = << >>
                   /\ contents' = contents
                   /\ outcome'[c] = [status |-> "returned", error |-> None,
                                     value |-> NoneValue]
          /\ \A q \in Queries, l \in Limits :
                search_similar_conversations(c, e, q, l)
                => /\ calls'[c] = << >>
                   /\ contents' = contents
                   /\ outcome'[c].status = "returned"
                   /\ outcome'[c].value.kind = "list"
                   /\ outcome'[c].value.relevant_conversations = << >>]_vars

C4_Witness ==
    /\ semantic_store = None
    /\ \E c, d \in Callers :
        /\ Ran(c, "store_conversation_for_search")
        /\ Ran(d, "search_similar_conversations")
        /\ outcome[d].value.relevant_conversations = << >>
        /\ calls[c] = << >> /\ calls[d] = << >>

(* C5: get_context_for_response(e, q), with or without a semantic store, returns
   a bundle whose query is q and whose relevant_conversations has length at
   most 2. *)
C5_ContextBundleShape ==
    \A c \in Callers :
        (Ran(c, "get_context_for_response") /\ outcome[c].status = "returned")
        => /\ outcome[c].value.kind = "bundle"
           /\ outcome[c].value.query = frame[c].query
           /\ Len(outcome[c].value.relevant_conversations) <= 2

C5_Witness ==
    \E c \in Callers :
        /\ Ran(c, "get_context_for_response")
        /\ outcome[c].status = "returned"
        /\ ConversationCount(frame[c].assistant_id) = 3
        /\ Len(outcome[c].value.relevant_conversations) = 2
        /\ outcome[c].value.query = "q1"

(* C6: get_user_preferences(e) for an entity e no preferences were written for
   returns the empty mapping, after any operations on other entities and any
   conversation writes for e. *)
C6_GetWithoutWriteReturnsEmpty ==
    [][\A c \in Callers, e \in Entities :
          (/\ get_user_preferences(c, e)
           /\ calls'[c][1].error = None
           /\ history[e] = << >>)
          => outcome'[c] = [status |-> "returned", error |-> None,
                            value |-> DictValue(EmptyDict)]]_vars

C6_Witness ==
    \E c \in Callers :
        /\ Ran(c, "get_user_preferences")
        /\ outcome[c].status = "returned"
        /\ outcome[c].value.user_preferences = EmptyDict
        /\ history[frame[c].assistant_id] = << >>
        /\ \E e \in Entities : history[e] # << >> /\ history[e][1] # EmptyDict

(* C7, as claimed: when the semantic store's search fails during
   get_context_for_response, the call still returns a bundle carrying the
   preferences read from the regular store. *)
C7_SearchFailureFallsBack ==
    \A c \in Callers :
        (/\ Ran(c, "get_context_for_response")
         /\ Len(calls[c]) = 2
         /\ calls[c][2].call.method = "search"
         /\ calls[c][2].error # None)
        => /\ outcome[c].status = "returned"
           /\ outcome[c].value.kind = "bundle"
           /\ outcome[c].value.user_preferences = preferences[c]

(* C8: a failure raised by a store call propagates unchanged to the caller of
   the facade operation that issued it: the operation raises that very error,
   the failed call is the last one it issued (no retry, no further call), and
   an operation raises only what a store call raised; a
   get_context_for_response whose preference lookup fails issues no search. *)
C8_StoreFailurePropagates ==
    \A c \in Callers :
        /\ \A i \in DOMAIN calls[c] :
              calls[c][i].error # None
              => /\ i = Len(calls[c])
                 /\ outcome[c].status = "raised"
                 /\ outcome[c].error = calls[c][i].error
        /\ \A i, j \in DOMAIN calls[c] :
              calls[c][i].call.method = calls[c][j].call.method => i = j
        /\ outcome[c].status = "raised"
              => /\ calls[c] # << >>
                 /\ Last(calls[c]).error = outcome[c].error
        /\ (/\ frame[c].op = "get_context_for_response"
            /\ calls[c] # << >>
            /\ calls[c][1].error # None)
              => Len(calls[c]) = 1

C8_Witness ==
    \E c, d \in Callers :
        /\ Ran(c, "get_context_for_response")
        /\ semantic_store # None
        /\ outcome[c] = [status |-> "raised", error |-> "Timeout", value |-> NoneValue]
        /\ Len(calls[c]) = 1
        /\ calls[c][1].call.method = "get"
        /\ Ran(d, "get_context_for_response")
        /\ outcome[d].status = "raised"
        /\ outcome[d].error = "StoreUnavailable"
        /\ Len(calls[d]) = 2
        /\ calls[d][2].call.method = "search"

(* The preferences a completed read handed back are {} or one whole written value *)
PreferencesReadWhole(c) ==
    (/\ frame[c].op \in {"get_user_preferences", "get_context_for_response"}
     /\ outcome[c].status = "returned")
    => \/ outcome[c].value.user_preferences = EmptyDict
       \/ \E i \in DOMAIN history[frame[c].assistant_id] :
             history[frame[c].assistant_id][i] = outcome[c].value.user_preferences

(* C9: with callers interleaved at each store call, no facade operation changes
   the two held store references, and the preferences every
   get_user_preferences(e) and get_context_for_response(e, q) returns are the
   empty mapping or a mapping some store_user_preferences(e, .) wrote in full. *)
C9_ConcurrentUseSafe ==
    [][/\ regular_store' = regular_store
       /\ semantic_store' = semantic_store
       /\ \A c \in Callers : PreferencesReadWhole(c)']_vars

C9_Witness ==
    \E c, d \in Callers :
        /\ c # d
        /\ Ran(c, "get_context_for_response")
        /\ outcome[c].status = "returned"
        /\ Len(calls[c]) = 2
        /\ outcome[c].value.user_preferences = EmptyDict
        /\ Ran(d, "store_user_preferences")
        /\ outcome[d].status = "returned"
        /\ frame[d].assistant_id = frame[c].assistant_id
        /\ history[frame[c].assistant_id] = <<[theme |-> "dark"]>>

(* C10: with a semantic store, store_conversation_for_search(e, conv) issues
   exactly one store call, a put on the semantic store (none on the regular
   store), under namespace [conversations, e] and key "conv_" + conv's id
   ("conv_unknown" without an id), whose value has exactly the fields text,
   topics, timestamp and sentiment taken from conv, an absent topics being the
   empty sequence and an absent sentiment "neutral". *)
C10_ConversationPut ==
    \A c \in Callers :
        (Ran(c, "store_conversation_for_search") /\ semantic_store # None)
        => LET conv == frame[c].conversation
               has(f) == f \in DOMAIN conv
           IN  /\ Len(calls[c]) = 1
               /\ calls[c][1].call.method = "put"
               /\ calls[c][1].call.store = semantic_store
               /\ calls[c][1].call.store # regular_store
               /\ calls[c][1].call.namespace = <<"conversations", frame[c].assistant_id>>
               /\ calls[c][1].call.key =
                     (IF has("id") THEN "conv_" \o conv.id ELSE "conv_unknown")
               /\ DOMAIN calls[c][1].call.value =
                     {"text", "topics", "timestamp", "sentiment"}
               /\ calls[c][1].call.value.text = (IF has("text") THEN conv.text ELSE "")
               /\ calls[c][1].call.value.topics =
                     (IF has("topics") THEN conv.topics ELSE << >>)
               /\ calls[c][1].call.value.timestamp =
                     (IF has("timestamp") THEN conv.timestamp ELSE None)
               /\ calls[c][1].call.value.sentiment =
                     (IF has("sentiment") THEN conv.sentiment ELSE "neutral")

C10_Witness ==
    \E c, d \in Callers :
        /\ semantic_store = SemanticStoreObject
        /\ Ran(c, "store_conversation_for_search")
        /\ outcome[c].status = "returned"
        /\ frame[c].conversation = EmptyDict
        /\ frame[c].assistant_id = "e2"
        /\ contents[semantic_store][<< <<"conversations", "e2">>, "conv_unknown" >>]
              = [text |-> "", topics |-> << >>, timestamp |-> None,
                 sentiment |-> "neutral"]
        /\ Ran(d, "store_conversation_for_search")
        /\ "channel" \in DOMAIN frame[d].conversation
        /\ outcome[d].status = "returned"

====
